---- MODULE Spec2Model ----
(***************************************************************************)
(* A model of src/bit.rs: BitWriter (bit packing into a byte sink) and     *)
(* BitReader (bit extraction from a byte source).                          *)
(*                                                                         *)
(* A u32 register (buf, last_read) is modelled as the set of the positions *)
(* of its 1-bits, a subset of 0..31: `|` is union, `<<` and `>>` move the  *)
(* positions and drop what leaves 0..31.  u8/u16 values are numbers.       *)
(***************************************************************************)
EXTENDS Integers, Sequences, FiniteSets, TLC

\* ------------------------------------------------------------- bounds
MaxWOps == 4      \* writer calls in one behaviour
MaxROps == 4      \* reader calls in one behaviour
MaxSrcLen == 3    \* bytes in the reader's source
MaxPairs == 3     \* (width, value) pairs of a round trip

\* ------------------------------------------------------------- inputs
Builds == {"debug", "release"}
\* <<bitwidth, bits>> arguments of write_bits: bits fitting the width, and not
WFields == {<<0, 0>>, <<3, 2>>, <<11, 1370>>, <<15, 32767>>, <<7, 127>>,
            <<1, 3>>, <<1, 256>>, <<3, 65535>>}
\* the same over a sink that may fail
WFFields == {<<3, 2>>, <<11, 1370>>, <<15, 32767>>}
\* bitwidth arguments of read_bits / peek_bits, and of skip_bits
RWidths == {0, 1, 3, 8, 15, 16}
SWidths == {1, 8}
SrcBytes == {165, 213}

\* ------------------------------------------------------------- bit helpers
Pow2(n) == 2 ^ n

Min(a, b) == IF a < b THEN a ELSE b

Max(a, b) == IF a > b THEN a ELSE b

\* `bits as u32`: the 1-bits of a u16 (or u8) number
BitsOf(v) == {i \in 0..15 : (v \div Pow2(i)) % 2 = 1}

RECURSIVE ToNat(_)
\* the number whose 1-bits are S, for S within 0..15
ToNat(S) == IF S = {} THEN 0
            ELSE LET i == CHOOSE x \in S : TRUE IN Pow2(i) + ToNat(S \ {i})

\* u32 << n
Shl(S, n) == {i + n : i \in S} \cap (0..31)

\* u32 >> n
Shr(S, n) == {i - n : i \in {j \in S : j >= n}}

\* `x as u8`
AsU8(S) == ToNat(S \cap (0..7))

\* `x as u16`
AsU16(S) == ToNat(S \cap (0..15))

\* a bug: the two bytes in big-endian order
LE16_BigEndian(n) == <<n \div 256, n % 256>>

\* write_u16::<LittleEndian>: low byte first
LE16(n) == <<n % 256, n \div 256>>

VARIABLES
    build,        \* how the crate was compiled: debug_assert and overflow checks on or off
    \* BitWriter
    buf,          \* BitWriter.buf: u32
    end,          \* BitWriter.end: u8
    inner_w,      \* BitWriter.inner: the bytes the sink has accepted
    flushes,      \* number of inner.flush() calls the sink has completed
    wop,          \* the last writer call: [op, width, bits]
    wres,         \* how it returned: "none", "ok", "err" (sink error), "panic"
    wlog,         \* history: the fields written so far, as <<width, bits>>
    werrs,        \* history: number of calls that returned a sink error
    wn,           \* history: number of writer calls
    wmark,        \* history: [bits written since creation / the last flush, bytes the sink held then]
    \* BitReader
    inner_r,      \* BitReader.inner: the source's bytes
    inner_pos,    \* BitReader.inner: number of bytes the source has delivered
    last_read,    \* BitReader.last_read: u32
    offset,       \* BitReader.offset: u8
    rop,          \* the last reader call: [op, width, p] (p: bits consumed before it)
    rres,         \* how it returned: "none", "ok", "eof", "panic"
    rval,         \* the u16 it returned (0 when none)
    fills,        \* offsets at entry of each fill_next_u8 of the last call
    base,         \* history: bytes the source had delivered at creation / the last reset
    consumed,     \* history: bits consumed by read_bit/read_bits/skip_bits since then
    reofs,        \* history: number of calls that returned end-of-stream
    rresets,      \* history: number of reset calls
    rn,           \* history: number of reader calls
    rsince,       \* history since creation / the last reset: [maxreq: highest bit position
                  \* (bits consumed + width) a read or peek asked for, eofs: end-of-stream results]
    \* round trip
    phase,        \* "write", "read"
    ridx          \* fields read back so far

wvars == <<buf, end, inner_w, flushes, wop, wres, wlog, werrs, wn, wmark>>
rvars == <<inner_r, inner_pos, last_read, offset, rop, rres, rval, fills,
           base, consumed, reofs, rresets, rn, rsince>>
tvars == <<phase, ridx>>
vars == <<build, wvars, rvars, tvars>>

\* ------------------------------------------------------------- BitWriter
\* a bug: emits only past 16 buffered bits
flush_if_needed_Late(b, e, acc) ==
    IF e > 16
    THEN IF acc = 2
         THEN [buf |-> Shr(b, 16), end |-> e - 16, out |-> LE16(AsU16(b)), res |-> "ok"]
         ELSE [buf |-> b, end |-> e, out |-> SubSeq(LE16(AsU16(b)), 1, acc), res |-> "err"]
    ELSE [buf |-> b, end |-> e, out |-> <<>>, res |-> "ok"]

\* a bug: emits the two bytes but keeps counting them as buffered
flush_if_needed_KeepsEnd(b, e, acc) ==
    IF e >= 16
    THEN IF acc = 2
         THEN [buf |-> Shr(b, 16), end |-> e, out |-> LE16(AsU16(b)), res |-> "ok"]
         ELSE [buf |-> b, end |-> e, out |-> SubSeq(LE16(AsU16(b)), 1, acc), res |-> "err"]
    ELSE [buf |-> b, end |-> e, out |-> <<>>, res |-> "ok"]

\* flush_if_needed on (buf, end); acc: bytes of the two the sink accepts
\* (2: write_u16 succeeds; 0 or 1: write_all fails after that many)
flush_if_needed(b, e, acc) ==
    IF e >= 16
    THEN IF acc = 2
         THEN [buf |-> Shr(b, 16), end |-> e - 16, out |-> LE16(AsU16(b)), res |-> "ok"]
         ELSE [buf |-> b, end |-> e, out |-> SubSeq(LE16(AsU16(b)), 1, acc), res |-> "err"]
    ELSE [buf |-> b, end |-> e, out |-> <<>>, res |-> "ok"]

\* write_bits on (buf, end).  In a debug build the two debug_assert! and the
\* overflow check of `<<` panic; a release build shifts by end mod 32 and adds mod 256.
write_bits(b, e, bitwidth, bits, acc, bld) ==
    IF bld = "debug" /\ (bitwidth >= 16 \/ e + bitwidth > 32 \/ e >= 32)
    THEN [buf |-> b, end |-> e, out |-> <<>>, res |-> "panic"]
    ELSE flush_if_needed(b \cup Shl(BitsOf(bits), e % 32), (e + bitwidth) % 256, acc)

\* write_bit
write_bit(b, e, bit, acc, bld) == write_bits(b, e, 1, IF bit THEN 1 ELSE 0, acc, bld)

\* number of passes of flush's loop when no write fails
FlushPasses(e) == (e + 7) \div 8

\* flush on (buf, end).  failAt: the sink call that fails (0-based; the passes'
\* write_u8 first, then inner.flush()); FlushPasses(e) + 1: none fails.
flush(b, e, failAt) ==
    LET k == Min(failAt, FlushPasses(e))
    IN [buf |-> Shr(b, 8 * k),
        end |-> Max(e - 8 * k, 0),
        out |-> [j \in 1..k |-> AsU8(Shr(b, 8 * (j - 1)))],
        flushed |-> failAt > FlushPasses(e),
        res |-> IF failAt > FlushPasses(e) THEN "ok" ELSE "err"]

WriterNew ==
    /\ buf = {} /\ end = 0 /\ inner_w = <<>> /\ flushes = 0
    /\ wop = [op |-> "new", width |-> 0, bits |-> 0] /\ wres = "none"
    /\ wlog = <<>> /\ werrs = 0 /\ wn = 0
    /\ wmark = [bits |-> 0, bytes |-> 0]

WriterApply(r, op, w, v) ==
    /\ buf' = r.buf /\ end' = r.end /\ inner_w' = inner_w \o r.out
    /\ wres' = r.res
    /\ wop' = [op |-> op, width |-> w, bits |-> v]
    /\ wlog' = IF r.res = "panic" THEN wlog ELSE Append(wlog, <<w, v>>)
    /\ werrs' = IF r.res = "err" THEN werrs + 1 ELSE werrs
    /\ wn' = wn + 1
    /\ wmark' = IF r.res = "panic" THEN wmark ELSE [wmark EXCEPT !.bits = @ + w]
    /\ UNCHANGED flushes

WriterLive == wres # "panic" /\ wn < MaxWOps

WriteBits(bitwidth, bits, acc) ==
    /\ WriterLive
    /\ WriterApply(write_bits(buf, end, bitwidth, bits, acc, build), "write_bits", bitwidth, bits)
    /\ UNCHANGED <<build, rvars, tvars>>

WriteBit(bit, acc) ==
    /\ WriterLive
    /\ WriterApply(write_bit(buf, end, bit, acc, build), "write_bit", 1, IF bit THEN 1 ELSE 0)
    /\ UNCHANGED <<build, rvars, tvars>>

Flush(failAt) ==
    /\ WriterLive
    /\ LET r == flush(buf, end, failAt)
       IN /\ buf' = r.buf /\ end' = r.end /\ inner_w' = inner_w \o r.out
          /\ wres' = r.res
          /\ flushes' = IF r.flushed THEN flushes + 1 ELSE flushes
          /\ werrs' = IF r.res = "err" THEN werrs + 1 ELSE werrs
          /\ wmark' = IF r.res = "ok"
                      THEN [bits |-> 0, bytes |-> Len(inner_w) + Len(r.out)]
                      ELSE wmark
    /\ wop' = [op |-> "flush", width |-> 0, bits |-> 0]
    /\ wn' = wn + 1
    /\ UNCHANGED <<wlog, build, rvars, tvars>>

\* ------------------------------------------------------------- BitReader
\* a bug: the register is not shifted down before the new byte goes in
fill_next_u8_NoShift(lr, off, src, pos, bld) ==
    IF bld = "debug" /\ off < 8
    THEN [last_read |-> lr, offset |-> off, pos |-> pos, res |-> "panic"]
    ELSE IF pos < Len(src)
    THEN [last_read |-> lr \cup Shl(BitsOf(src[pos + 1]), 32 - 8),
          offset |-> (off - 8) % 256, pos |-> pos + 1, res |-> "ok"]
    ELSE [last_read |-> lr, offset |-> (off - 8) % 256, pos |-> pos, res |-> "eof"]

\* fill_next_u8 on (last_read, offset) and the source (src, pos).  The offset and the
\* register are changed before the byte is asked for, so they stay changed when
\* read_u8 fails with UnexpectedEof.  A debug build panics when `offset -= 8`
\* underflows; a release build wraps.
fill_next_u8(lr, off, src, pos, bld) ==
    IF bld = "debug" /\ off < 8
    THEN [last_read |-> lr, offset |-> off, pos |-> pos, res |-> "panic"]
    ELSE IF pos < Len(src)
    THEN [last_read |-> Shr(lr, 8) \cup Shl(BitsOf(src[pos + 1]), 32 - 8),
          offset |-> (off - 8) % 256, pos |-> pos + 1, res |-> "ok"]
    ELSE [last_read |-> Shr(lr, 8), offset |-> (off - 8) % 256, pos |-> pos, res |-> "eof"]

\* (1 << bitwidth) - 1 in u16, as the set of its 1-bits; the shift count is taken
\* mod 16 where the overflow check is off
Mask(bitwidth) == BitsOf(Pow2(bitwidth % 16) - 1)

\* the last two lines of peek_bits.  A debug build panics on `last_read >> 32` and
\* on `1u16 << 16`; a release build takes the shift counts mod 32 and mod 16.
extract(lr, off, bitwidth, bld) ==
    IF bld = "debug" /\ (off >= 32 \/ bitwidth >= 16)
    THEN [res |-> "panic", val |-> 0]
    ELSE [res |-> "ok", val |-> ToNat((Shr(lr, off % 32) \cap (0..15)) \cap Mask(bitwidth))]

RECURSIVE peek_loop_Eager(_, _, _, _, _, _, _)
\* a bug: the loop goes on while (32 - offset) <= bitwidth, fetching one byte too many
peek_loop_Eager(lr, off, src, pos, bitwidth, bld, fl) ==
    IF bld = "debug" /\ off > 32
    THEN [last_read |-> lr, offset |-> off, pos |-> pos, res |-> "panic", val |-> 0, fills |-> fl]
    ELSE IF (32 - off) % 256 <= bitwidth
    THEN LET f == fill_next_u8(lr, off, src, pos, bld)
         IN IF f.res = "ok"
            THEN peek_loop_Eager(f.last_read, f.offset, src, f.pos, bitwidth, bld, Append(fl, off))
            ELSE [last_read |-> f.last_read, offset |-> f.offset, pos |-> f.pos,
                  res |-> f.res, val |-> 0, fills |-> Append(fl, off)]
    ELSE LET x == extract(lr, off, bitwidth, bld)
         IN [last_read |-> lr, offset |-> off, pos |-> pos,
             res |-> x.res, val |-> x.val, fills |-> fl]

RECURSIVE peek_loop(_, _, _, _, _, _, _)
\* peek_bits' loop and what follows it; fl: the offsets at entry of the fills so far
peek_loop(lr, off, src, pos, bitwidth, bld, fl) ==
    IF bld = "debug" /\ off > 32
    THEN [last_read |-> lr, offset |-> off, pos |-> pos, res |-> "panic", val |-> 0, fills |-> fl]
    ELSE IF (32 - off) % 256 < bitwidth
    THEN LET f == fill_next_u8(lr, off, src, pos, bld)
         IN IF f.res = "ok"
            THEN peek_loop(f.last_read, f.offset, src, f.pos, bitwidth, bld, Append(fl, off))
            ELSE [last_read |-> f.last_read, offset |-> f.offset, pos |-> f.pos,
                  res |-> f.res, val |-> 0, fills |-> Append(fl, off)]
    ELSE LET x == extract(lr, off, bitwidth, bld)
         IN [last_read |-> lr, offset |-> off, pos |-> pos,
             res |-> x.res, val |-> x.val, fills |-> fl]

\* peek_bits
peek_bits(lr, off, src, pos, bitwidth, bld) == peek_loop(lr, off, src, pos, bitwidth, bld, <<>>)

\* skip_bits on offset
skip_bits(off, bitwidth) == (off + bitwidth) % 256

\* read_bits: peek_bits, and skip_bits when it succeeded
read_bits(lr, off, src, pos, bitwidth, bld) ==
    LET r == peek_bits(lr, off, src, pos, bitwidth, bld)
    IN IF r.res = "ok" THEN [r EXCEPT !.offset = skip_bits(r.offset, bitwidth)] ELSE r

\* read_bit: read_bits(1), the result mapped by b != 0 (true as 1)
read_bit(lr, off, src, pos, bld) ==
    LET r == read_bits(lr, off, src, pos, 1, bld)
    IN [r EXCEPT !.val = IF r.val # 0 THEN 1 ELSE 0]

ReaderLive == rres # "panic" /\ rn < MaxROps

ReaderApply(r, op, w, adv) ==
    /\ last_read' = r.last_read /\ offset' = r.offset /\ inner_pos' = r.pos
    /\ rres' = r.res /\ rval' = r.val /\ fills' = r.fills
    /\ rop' = [op |-> op, width |-> w, p |-> consumed]
    /\ consumed' = IF r.res = "ok" THEN consumed + adv ELSE consumed
    /\ reofs' = IF r.res = "eof" THEN reofs + 1 ELSE reofs
    /\ rn' = rn + 1
    /\ rsince' = IF r.res = "panic" THEN rsince
                 ELSE [maxreq |-> Max(rsince.maxreq, consumed + w),
                       eofs |-> IF r.res = "eof" THEN rsince.eofs + 1 ELSE rsince.eofs]
    /\ UNCHANGED <<inner_r, base, rresets>>

PeekBits(bitwidth) ==
    /\ ReaderLive
    /\ ReaderApply(peek_bits(last_read, offset, inner_r, inner_pos, bitwidth, build),
                   "peek_bits", bitwidth, 0)
    /\ UNCHANGED <<build, wvars, tvars>>

ReadBits(bitwidth) ==
    /\ ReaderLive
    /\ ReaderApply(read_bits(last_read, offset, inner_r, inner_pos, bitwidth, build),
                   "read_bits", bitwidth, bitwidth)
    /\ UNCHANGED <<build, wvars, tvars>>

ReadBit ==
    /\ ReaderLive
    /\ ReaderApply(read_bit(last_read, offset, inner_r, inner_pos, build), "read_bit", 1, 1)
    /\ UNCHANGED <<build, wvars, tvars>>

\* skip_bits, called as its debug_assert requires: over bits already buffered
SkipBits(bitwidth) ==
    /\ ReaderLive
    /\ 32 - offset >= bitwidth
    /\ offset' = skip_bits(offset, bitwidth)
    /\ rop' = [op |-> "skip_bits", width |-> bitwidth, p |-> consumed]
    /\ rres' = "ok" /\ rval' = 0 /\ fills' = <<>>
    /\ consumed' = consumed + bitwidth
    /\ rn' = rn + 1
    /\ UNCHANGED <<inner_r, inner_pos, last_read, base, reofs, rresets, rsince,
                   build, wvars, tvars>>

\* reset
Reset ==
    /\ ReaderLive
    /\ offset' = 32
    /\ rop' = [op |-> "reset", width |-> 0, p |-> consumed]
    /\ rres' = "ok" /\ rval' = 0 /\ fills' = <<>>
    /\ base' = inner_pos /\ consumed' = 0
    /\ rresets' = rresets + 1
    /\ rn' = rn + 1
    /\ rsince' = [maxreq |-> 0, eofs |-> 0]
    /\ UNCHANGED <<inner_r, inner_pos, last_read, reofs, build, wvars, tvars>>

ReaderNew(src) ==
    /\ inner_r = src /\ inner_pos = 0 /\ last_read = {} /\ offset = 32
    /\ rop = [op |-> "new", width |-> 0, p |-> 0] /\ rres = "none" /\ rval = 0
    /\ fills = <<>> /\ base = 0 /\ consumed = 0 /\ reofs = 0 /\ rresets = 0 /\ rn = 0
    /\ rsince = [maxreq |-> 0, eofs |-> 0]

RTIdle == phase = "write" /\ ridx = 0

\* ------------------------------------------------------------- specifications
InitW ==
    /\ build \in Builds
    /\ WriterNew
    /\ ReaderNew(<<>>)
    /\ RTIdle

\* the writer over a sink that accepts everything (a Vec)
NextW ==
    \/ \E f \in WFields : WriteBits(f[1], f[2], 2)
    \/ \E bit \in BOOLEAN : WriteBit(bit, 2)
    \/ Flush(FlushPasses(end) + 1)

SpecW == InitW /\ [][NextW]_vars

\* the writer over a sink that may reject any call
NextWF ==
    \/ \E f \in WFFields, acc \in 0..2 : WriteBits(f[1], f[2], acc)
    \/ \E bit \in BOOLEAN, acc \in 0..2 : WriteBit(bit, acc)
    \/ \E failAt \in 0..(FlushPasses(end) + 1) : Flush(failAt)

SpecWF == InitW /\ [][NextWF]_vars

Sources == UNION {[1..n -> SrcBytes] : n \in 0..MaxSrcLen}

InitR ==
    /\ build \in Builds
    /\ WriterNew
    /\ \E src \in Sources : ReaderNew(src)
    /\ RTIdle

NextR ==
    \/ \E w \in RWidths : PeekBits(w)
    \/ \E w \in RWidths : ReadBits(w)
    \/ ReadBit
    \/ \E w \in SWidths : SkipBits(w)
    \/ Reset

SpecR == InitR /\ [][NextR]_vars

\* a round trip: fields written over a Vec, one flush, then a BitReader over the
\* Vec's bytes (io::Cursor) reads the same widths back in order
RTFields == {<<1, 0>>, <<1, 1>>, <<3, 2>>, <<11, 1370>>, <<15, 32767>>,
             <<1, 3>>, <<3, 65535>>, <<7, 256>>}

RTWrite(f) ==
    /\ phase = "write" /\ wop.op # "flush" /\ Len(wlog) < MaxPairs
    /\ WriteBits(f[1], f[2], 2)

RTFlush ==
    /\ phase = "write" /\ wop.op # "flush"
    /\ Flush(FlushPasses(end) + 1)

RTOpen ==
    /\ phase = "write" /\ wop.op = "flush"
    /\ phase' = "read"
    /\ inner_r' = inner_w
    /\ UNCHANGED <<inner_pos, last_read, offset, rop, rres, rval, fills,
                   base, consumed, reofs, rresets, rn, rsince, ridx, build, wvars>>

RTRead ==
    /\ phase = "read" /\ ridx < Len(wlog) /\ ReaderLive
    /\ ReaderApply(read_bits(last_read, offset, inner_r, inner_pos, wlog[ridx + 1][1], build),
                   "read_bits", wlog[ridx + 1][1], wlog[ridx + 1][1])
    /\ ridx' = ridx + 1
    /\ UNCHANGED <<phase, build, wvars>>

NextRT ==
    \/ \E f \in RTFields : RTWrite(f)
    \/ RTFlush
    \/ RTOpen
    \/ RTRead

SpecRT == InitW /\ [][NextRT]_vars

\* ------------------------------------------------------------- round-trip claim
\* C1: fields of width 1..15 with any 16-bit value, written, flushed and read back
\* with the same widths: every read returns its value masked to its width.
C1_RoundTrip ==
    (phase = "read" /\ ridx >= 1)
        => (rres = "ok" /\ rval = wlog[ridx][2] % Pow2(wlog[ridx][1]))

\* ------------------------------------------------------------- writer claims
\* the bits of one field in write order: the low `width` bits of `bits`, bit 0 first
FieldBits(f) == [j \in 1..f[1] |-> (f[2] \div Pow2(j - 1)) % 2]

RECURSIVE WireBits(_)
\* the fields of a log as one bit sequence
WireBits(log) == IF log = <<>> THEN <<>>
                 ELSE FieldBits(Head(log)) \o WireBits(Tail(log))

\* a bit sequence cut into bytes, least-significant bit first, the last byte zero-padded
PackBytes(bs) ==
    [k \in 1..((Len(bs) + 7) \div 8) |->
        LET bit(j) == IF 8 * (k - 1) + j <= Len(bs) THEN bs[8 * (k - 1) + j] ELSE 0
        IN bit(1) + 2 * bit(2) + 4 * bit(3) + 8 * bit(4)
           + 16 * bit(5) + 32 * bit(6) + 64 * bit(7) + 128 * bit(8)]

AllFit(log) == \A i \in 1..Len(log) : log[i][2] < Pow2(log[i][1])

TotalBits(log) == Len(WireBits(log))

\* C2: writes whose values fit their widths, then one flush: the sink holds exactly
\* the fields as one bit sequence packed LSB-first, ceil(total_bits / 8) bytes, the
\* last one zero-padded.
C2_WireFormat ==
    (wop.op = "flush" /\ wres = "ok" /\ flushes = 1 /\ werrs = 0 /\ AllFit(wlog))
        => /\ inner_w = PackBytes(WireBits(wlog))
           /\ Len(inner_w) = (TotalBits(wlog) + 7) \div 8

\* bit 1, then 0b010 width 3, then 0b10101011010 width 11, flush: [0b10100101, 0b01010101]
C2_Witness ==
    /\ wop.op = "flush" /\ wres = "ok" /\ flushes = 1
    /\ wlog = <<<<1, 1>>, <<3, 2>>, <<11, 1370>>>>
    /\ inner_w = <<165, 85>>

\* C7: a successful flush after successful writes emits exactly ceil(filled / 8) bytes
\* and one sink flush, and leaves filled = 0 and the accumulator empty; so a second
\* flush in a row emits nothing but the sink flush.
C7_FlushDrains ==
    [][(wop'.op = "flush" /\ wres' = "ok" /\ werrs' = 0)
        => /\ Len(inner_w') = Len(inner_w) + ((end + 7) \div 8)
           /\ flushes' = flushes + 1
           /\ end' = 0
           /\ buf' = {}]_vars

\* C8 as claimed: after successful writes at most 7 written bits are still unemitted.
C8_AtMost7Unflushed ==
    (wop.op \in {"write_bit", "write_bits"} /\ wres = "ok" /\ werrs = 0) => end <= 7

\* C8 amended: after successful writes at most 15 written bits are still unemitted
\* (the writer emits 16 bits at a time, once 16 are buffered).
C8_AtMost15Unflushed ==
    (wop.op \in {"write_bit", "write_bits"} /\ wres = "ok" /\ werrs = 0) => end <= 15

\* 15 bits written, none emitted
C8_Witness ==
    /\ wop.op = "write_bits" /\ wres = "ok" /\ werrs = 0
    /\ end = 15 /\ inner_w = <<>> /\ TotalBits(wlog) = 15

Returned == wres \in {"ok", "err"}

\* C9 as claimed: for widths < 16, filled is at most 31 after any public operation
\* returns, with success or with a sink error.
C9_FilledAtMost31 == (wres = "none" \/ Returned) => end <= 31

\* C9 amended: the same up to and including the first operation that returns a sink
\* error; a writer used again after a sink error can exceed 31.
C9_FilledAtMost31UntilError ==
    ((wres = "none" \/ Returned) /\ (werrs = 0 \/ (werrs = 1 /\ wres = "err")))
        => end <= 31

\* the first sink error, returned by a write that filled the buffer to 30 bits
C9_Witness ==
    /\ wop.op = "write_bits" /\ wres = "err" /\ werrs = 1 /\ end = 30

\* ------------------------------------------------------------- reader claims
\* bit k (from 0) of a byte sequence read as one LSB-first bit sequence
StreamBit(src, k) == (src[(k \div 8) + 1] \div Pow2(k % 8)) % 2

RECURSIVE StreamVal(_, _, _)
\* bits [p, p + w) of it as a number, bit p lowest
StreamVal(src, p, w) == IF w = 0 THEN 0
                        ELSE StreamBit(src, p) + 2 * StreamVal(src, p + 1, w - 1)

\* position in the source's bit sequence of the first bit the last call was to return
StreamPos == 8 * base + rop.p

\* real stream bits not yet consumed when the last call was made
BitsLeftBefore == 8 * Len(inner_r) - StreamPos

IsFetch == rop.op \in {"peek_bits", "read_bits", "read_bit"}

\* C3: with only successful read_bit / read_bits / peek_bits / skip_bits calls so
\* far and 1 <= w <= 15, a read or peek returns bits [p, p + w) of the source, p being
\* the bits consumed before it; read and skip advance the position by w, peek by 0.
C3_ReaderExtraction ==
    (reofs = 0 /\ rresets = 0 /\ rres = "ok" /\ rop.width \in 1..15)
        => /\ rop.op \in {"peek_bits", "read_bits"}
                => rval = StreamVal(inner_r, rop.p, rop.width)
           /\ rop.op = "read_bit" => rval = StreamBit(inner_r, rop.p)
           /\ rop.op = "peek_bits" => consumed = rop.p
           /\ rop.op \in {"read_bits", "read_bit", "skip_bits"}
                => consumed = rop.p + rop.width
           /\ 8 * inner_pos - (32 - offset) = consumed

\* [0b10100101, 0b11010101]: bit, bit, then read_bits(8) = 0b01101001
C3_Witness ==
    /\ inner_r = <<165, 213>> /\ reofs = 0 /\ rresets = 0 /\ rres = "ok"
    /\ rop = [op |-> "read_bits", width |-> 8, p |-> 2]
    /\ rval = 105 /\ consumed = 10

\* C4: with at least 16 unconsumed bits left, peek_bits(16) and read_bits(16) return
\* the next 16 bits of the stream.
C4_Width16 ==
    (rop.op \in {"peek_bits", "read_bits"} /\ rop.width = 16
        /\ reofs = 0 /\ BitsLeftBefore >= 16)
        => (rres = "ok" /\ rval = StreamVal(inner_r, StreamPos, 16))

\* C5 (for 1 <= w <= 15): a read or peek of w bits fails with end-of-stream exactly
\* when fewer than w real stream bits were left, and succeeds otherwise.
C5_EofExactly ==
    (IsFetch /\ rop.width \in 1..15)
        => /\ rres \in {"ok", "eof"}
           /\ rres = "eof" <=> BitsLeftBefore < rop.width

\* C6: peek_bits(w) twice in a row gives the same result both times.
C6_PeekIdempotent ==
    [][(rop.op = "peek_bits" /\ rop'.op = "peek_bits" /\ rop'.width = rop.width
            /\ rn' = rn + 1)
        => (rres' = rres /\ rval' = rval)]_vars

\* C10: after new and after any call, successful or failed, 32 - offset is
\* 8 x (bytes obtained since creation or the last reset) - (bits consumed since then).
C10_OffsetInvariant ==
    rres # "panic" => 32 - offset = 8 * (inner_pos - base) - consumed

\* C11: after a reset, every read or peek of w >= 1 bits returns bits of the bytes the
\* source had not delivered at the reset, starting at bit 0 of the first of them and
\* going on from the bits consumed since: nothing buffered before the reset comes back.
C11_ResetDiscardsBuffer ==
    (rresets >= 1 /\ IsFetch /\ rop.width >= 1 /\ rsince.eofs = 0)
        => (rres = "ok" /\ rval = StreamVal(inner_r, StreamPos, rop.width))

\* bit i (from 0) of what the writer and its sink hold: the sink's bytes, then the
\* accumulator from bit 0
HeldBit(i) == IF i < 8 * Len(inner_w) THEN StreamBit(inner_w, i)
              ELSE IF (i - 8 * Len(inner_w)) \in buf THEN 1 ELSE 0

HeldLen == 8 * Len(inner_w) + end

\* C12 (first sink error, no flush completed before, values fitting their widths):
\* when write_bits or flush returns a sink error, the bytes the sink accepted followed
\* by the `end` accumulator bits are exactly the bits written so far (zero-padded to
\* a byte where flush emitted the last partial byte): nothing dropped, nothing twice.
C12_NothingLostOrDuplicated ==
    (wres = "err" /\ werrs = 1 /\ flushes = 0 /\ AllFit(wlog))
        => /\ HeldLen >= TotalBits(wlog)
           /\ HeldLen < TotalBits(wlog) + 8
           /\ \A i \in 0..(HeldLen - 1) :
                HeldBit(i) = IF i < TotalBits(wlog) THEN WireBits(wlog)[i + 1] ELSE 0

IsWrite == wop.op \in {"write_bit", "write_bits"}

\* what C13 says of the state after a write: T == wmark.bits
EmissionPolicy ==
    /\ Len(inner_w) - wmark.bytes = 2 * (wmark.bits \div 16)
    /\ end = wmark.bits % 16
    /\ end <= 15
    /\ buf \cap (end..31) = {}

\* C13 as claimed: after every successful write (widths < 16, values fitting), with T
\* the bits written since creation or the last flush: 2 * floor(T / 16) bytes emitted
\* since then, filled = T mod 16 <= 15, no accumulator bit set at or above filled.
C13_EmissionPolicy ==
    (IsWrite /\ wres = "ok" /\ AllFit(wlog)) => EmissionPolicy

\* C13 amended: the same for a writer none of whose calls has returned a sink error.
C13_EmissionPolicyNoError ==
    (IsWrite /\ wres = "ok" /\ AllFit(wlog) /\ werrs = 0) => EmissionPolicy

\* 3 bits and a flush, then 15 + 15 bits: two bytes emitted since, 14 bits buffered
C13_Witness ==
    /\ IsWrite /\ wres = "ok" /\ werrs = 0 /\ AllFit(wlog)
    /\ wmark = [bits |-> 30, bytes |-> 1] /\ Len(inner_w) = 3 /\ end = 14

\* C14: whenever fill_next_u8 is entered the offset is >= 8, so `offset -= 8` never
\* wraps and offset stays within 0..32; one peek_bits call fills at most twice.
C14_RefillNeverUnderflows ==
    /\ \A i \in 1..Len(fills) : fills[i] >= 8
    /\ offset \in 0..32
    /\ Len(fills) <= 2

\* 7 bits buffered, 16 asked for: two fills, entered at offsets 25 and 17
C14_Witness == IsFetch /\ rop.width = 16 /\ fills = <<25, 17>> /\ offset \in {9, 25}

\* C15: with only successful calls since creation or the last reset, the bytes taken
\* from the source since then are ceil(P / 8), P the highest bit position (bits
\* consumed + width) a read or peek has asked for; at most 23 unconsumed bits are buffered.
C15_LazyFetching ==
    (rsince.eofs = 0 /\ rres # "panic")
        => /\ inner_pos - base = (rsince.maxreq + 7) \div 8
           /\ 32 - offset <= 23

\* three bytes taken for a request ending at bit 17; 23 bits buffered
C15_Witness ==
    /\ rsince = [maxreq |-> 17, eofs |-> 0] /\ rres = "ok"
    /\ inner_pos - base = 3 /\ 32 - offset = 23

\* C16: peek_bits(0) and read_bits(0) succeed with 0 in every state, the empty buffer
\* (offset = 32) included, fetch no byte, leave offset as it was, and shift
\* last_read right by an amount (the offset) within 0..31.
C16_WidthZero ==
    [][(rop'.op \in {"peek_bits", "read_bits"} /\ rop'.width = 0 /\ rn' = rn + 1)
        => /\ rres' = "ok" /\ rval' = 0
           /\ inner_pos' = inner_pos /\ fills' = <<>>
           /\ offset' = offset
           /\ offset \in 0..31]_vars

\* C17 as claimed: the offset at entry of every fill_next_u8 is a multiple of 8.
C17_FillOffsetMultipleOf8 == \A i \in 1..Len(fills) : fills[i] % 8 = 0

\* C17 amended: the offset at entry of every fill_next_u8 is within 17..32 (fewer
\* than 16 bits are buffered); it need not be a multiple of 8.
C17_FillOffsetAtLeast17 == \A i \in 1..Len(fills) : fills[i] \in 17..32

\* a fill entered at offset 25, after one bit of the first byte was read
C17_Witness == rop.op = "peek_bits" /\ rop.p = 1 /\ fills = <<25>> /\ rres = "ok"
====
